---- MODULE Spec2Model ----
(***************************************************************************)
(* The hybrid frame composer of src/main.rs (a ggez + wgpu cube demo):     *)
(* MainState::new builds the mesh, the camera uniform and the pipeline;    *)
(* the event loop then delivers resize events, update and draw.  draw      *)
(* records one 3D pass and one 2D canvas pass; the recorded commands are   *)
(* executed by the GPU on one observed pixel of the frame.                 *)
(*                                                                         *)
(* Numbers:  window sizes are whole pixels; depths are in tenths (level d  *)
(* is the f32 depth d/10, so 0 is 0.0, 3 is 0.3 and 5 is 0.5), from 0 to   *)
(* MaxDepth; matrix entries are fixed-point, in units of 1/One.            *)
(***************************************************************************)
EXTENDS Integers, Sequences, FiniteSets, TLC

\* ------------------------------------------------------------ bounds
MaxDim == 2
MaxDepth == 5
MaxFrags == 2

Dims == 1..MaxDim
Sizes == Dims \X Dims
Depths == 0..MaxDepth

VARIABLES
    pc,              \* position of the program: construction, event loop, draw
    drawable,        \* ctx.gfx.drawable_size(): <<w, h>> of the window
    frames,          \* MainState.frames
    screen_coords,   \* MainState.screen_coords
    verts,           \* MainState.verts: the vertex buffer's contents
    inds,            \* MainState.inds: the index buffer's contents
    pipeline,        \* MainState.pipeline: the render pipeline's fixed state
    depth,           \* MainState.depth: the ScreenImage's cached image size
    camera_uniform,  \* MainState.camera_uniform
    camera_buffer,   \* MainState.camera_buffer: the uniform buffer's contents
    canvas1,         \* draw's first `canvas` binding (line 427)
    canvas2,         \* draw's second `canvas` binding (line 468); between
                     \* frames, the consumed canvas of the frame before
    attach,          \* size of the depth image acquired by draw (line 430)
    cmds,            \* commands recorded for the current frame
    result,          \* how the last draw ended: "none", "Ok", "Err", "panic"
    queue,           \* submitted commands the GPU has not executed yet
    prim,            \* primitives of the head draw_indexed already assembled
    prims,           \* the primitives assembled so far in this frame
    target,          \* the observed pixel of the frame colour target
    depthbuf,        \* the observed pixel of the depth target
    frags            \* fragments the depth test has seen in this frame

vars == <<pc, drawable, frames, screen_coords, verts, inds, pipeline, depth,
          camera_uniform, camera_buffer, canvas1, canvas2, attach, cmds,
          result, queue, prim, prims, target, depthbuf, frags>>

\* ------------------------------------------------------------ values
Rect(x, y, w, h) == [x |-> x, y |-> y, w |-> w, h |-> h]

Cmd(op, s, n) == [op |-> op, s |-> s, n |-> n]

Pixel(base, cube, text) == [base |-> base, cube |-> cube, text |-> text]

One == 10 ^ 3

\* ------------------------------------------------------------ vectors
Dot3(a, b) == a[1] * b[1] + a[2] * b[2] + a[3] * b[3]

Cross3(a, b) ==
    << a[2] * b[3] - a[3] * b[2],
       a[3] * b[1] - a[1] * b[3],
       a[1] * b[2] - a[2] * b[1] >>

Sub3(a, b) == << a[1] - b[1], a[2] - b[2], a[3] - b[3] >>

\* ------------------------------------------------------------ fixed point
RECURSIVE ISqrtIter(_, _)
ISqrtIter(x, r) ==
    LET n == (r + x \div r) \div 2
    IN  IF n >= r THEN r ELSE ISqrtIter(x, n)

ISqrt(x) == IF x = 0 THEN 0 ELSE ISqrtIter(x, x)

FxMul(a, b) == (a * b) \div One

FxVec3(x, y, z) == << x * One, y * One, z * One >>

FxDot3(a, b) == Dot3(a, b) \div One

FxCross3(a, b) ==
    LET c == Cross3(a, b)
    IN  << c[1] \div One, c[2] \div One, c[3] \div One >>

Normalize3(v) ==
    LET len == ISqrt(Dot3(v, v))
    IN  << (v[1] * One) \div len, (v[2] * One) \div len, (v[3] * One) \div len >>

Mat4(x, y, z, w) == [x_axis |-> x, y_axis |-> y, z_axis |-> z, w_axis |-> w]

Mat4_IDENTITY ==
    Mat4(<<One, 0, 0, 0>>, <<0, One, 0, 0>>, <<0, 0, One, 0>>, <<0, 0, 0, One>>)

\* column j of a * b is a applied to column j of b
MatVec(a, v) ==
    [i \in 1..4 |->
        FxMul(a.x_axis[i], v[1]) + FxMul(a.y_axis[i], v[2])
      + FxMul(a.z_axis[i], v[3]) + FxMul(a.w_axis[i], v[4])]

MatMul(a, b) ==
    Mat4(MatVec(a, b.x_axis), MatVec(a, b.y_axis),
         MatVec(a, b.z_axis), MatVec(a, b.w_axis))

look_at_rh(eye, center, up) ==
    LET f == Normalize3(Sub3(center, eye))
        s == Normalize3(FxCross3(f, up))
        u == FxCross3(s, f)
    IN  Mat4(<<s[1], u[1], -f[1], 0>>,
             <<s[2], u[2], -f[2], 0>>,
             <<s[3], u[3], -f[3], 0>>,
             <<-FxDot3(eye, s), -FxDot3(eye, u), FxDot3(eye, f), One>>)

\* h is cot(fovy / 2); the aspect ratio is aspect_n / aspect_d
perspective_rh(h, aspect_n, aspect_d, z_near, z_far) ==
    LET w == (h * aspect_d) \div aspect_n
        r == (z_far * One) \div (z_near - z_far)
    IN  Mat4(<<w, 0, 0, 0>>, <<0, h, 0, 0>>, <<0, 0, r, -One>>,
             <<0, 0, FxMul(r, z_near), 0>>)

\* ------------------------------------------------------------ camera
\* cot(PI / 8) in units of 1/One
CotHalfFovy == 2414

default_eye == << (3 * One) \div 2, (-5) * One, 3 * One >>

default_view == look_at_rh(default_eye, FxVec3(0, 0, 0), FxVec3(0, 0, 1))

build_view_projection_matrix ==
    LET view == default_view
        proj == perspective_rh(CotHalfFovy, 4, 3, 1 * One, 10 * One)
    IN  MatMul(proj, view)

CameraUniform_new ==
    << Mat4_IDENTITY.x_axis, Mat4_IDENTITY.y_axis,
       Mat4_IDENTITY.z_axis, Mat4_IDENTITY.w_axis >>

update_view_proj(self) ==
    LET view == build_view_projection_matrix
    IN  << view.x_axis, view.y_axis, view.z_axis, view.w_axis >>

\* ------------------------------------------------------------ mesh
Vertex_new(p, t) == [pos |-> <<p[1], p[2], p[3], 1>>, tex_coord |-> t]

vertex_data ==
    << \* top (0, 0, 1)
       Vertex_new(<<-1, -1, 1>>, <<0, 0>>),
       Vertex_new(<<1, -1, 1>>, <<1, 0>>),
       Vertex_new(<<1, 1, 1>>, <<1, 1>>),
       Vertex_new(<<-1, 1, 1>>, <<0, 1>>),
       \* bottom (0, 0, -1)
       Vertex_new(<<-1, 1, -1>>, <<1, 0>>),
       Vertex_new(<<1, 1, -1>>, <<0, 0>>),
       Vertex_new(<<1, -1, -1>>, <<0, 1>>),
       Vertex_new(<<-1, -1, -1>>, <<1, 1>>),
       \* right (1, 0, 0)
       Vertex_new(<<1, -1, -1>>, <<0, 0>>),
       Vertex_new(<<1, 1, -1>>, <<1, 0>>),
       Vertex_new(<<1, 1, 1>>, <<1, 1>>),
       Vertex_new(<<1, -1, 1>>, <<0, 1>>),
       \* left (-1, 0, 0)
       Vertex_new(<<-1, -1, 1>>, <<1, 0>>),
       Vertex_new(<<-1, 1, 1>>, <<0, 0>>),
       Vertex_new(<<-1, 1, -1>>, <<0, 1>>),
       Vertex_new(<<-1, -1, -1>>, <<1, 1>>),
       \* front (0, 1, 0)
       Vertex_new(<<1, 1, -1>>, <<1, 0>>),
       Vertex_new(<<-1, 1, -1>>, <<0, 0>>),
       Vertex_new(<<-1, 1, 1>>, <<0, 1>>),
       Vertex_new(<<1, 1, 1>>, <<1, 1>>),
       \* back (0, -1, 0)
       Vertex_new(<<1, -1, 1>>, <<0, 0>>),
       Vertex_new(<<-1, -1, 1>>, <<1, 0>>),
       Vertex_new(<<-1, -1, -1>>, <<1, 1>>),
       Vertex_new(<<1, -1, -1>>, <<0, 1>>) >>

\* the bottom face reusing two vertices of the top face
index_data_shared ==
    <<  0,  1,  2,  2,  3,  0,
        3,  2,  6,  6,  7,  3,
        8,  9, 10, 10, 11,  8,
       12, 13, 14, 14, 15, 12,
       16, 17, 18, 18, 19, 16,
       20, 21, 22, 22, 23, 20 >>

\* the first triangle of the top face wound the other way
index_data_flipped ==
    <<  0,  2,  1,  2,  3,  0,
        4,  5,  6,  6,  7,  4,
        8,  9, 10, 10, 11,  8,
       12, 13, 14, 14, 15, 12,
       16, 17, 18, 18, 19, 16,
       20, 21, 22, 22, 23, 20 >>

index_data ==
    <<  0,  1,  2,  2,  3,  0,   \* top
        4,  5,  6,  6,  7,  4,   \* bottom
        8,  9, 10, 10, 11,  8,   \* right
       12, 13, 14, 14, 15, 12,   \* left
       16, 17, 18, 18, 19, 16,   \* front
       20, 21, 22, 22, 23, 20 >> \* back

\* the outward normal the source's comments give each face, in face order
face_normal ==
    << <<0, 0, 1>>, <<0, 0, -1>>, <<1, 0, 0>>,
       <<-1, 0, 0>>, <<0, 1, 0>>, <<0, -1, 0>> >>

\* ------------------------------------------------------------ pipeline
PrimitiveState ==
    [topology |-> "TriangleList", front_face |-> "Ccw", cull_mode |-> "Back"]

\* the conventional compare function, against the same clear value
DepthStencilState_Less ==
    [format |-> "Depth32Float", depth_write_enabled |-> TRUE,
     depth_compare |-> "Less"]

DepthStencilState ==
    [format |-> "Depth32Float", depth_write_enabled |-> TRUE,
     depth_compare |-> "Greater"]

RenderPipeline(primitive, depth_stencil) ==
    [primitive |-> primitive, depth_stencil |-> depth_stencil]

NoPipeline ==
    RenderPipeline([topology |-> "", front_face |-> "", cull_mode |-> ""],
                   [format |-> "", depth_write_enabled |-> FALSE,
                    depth_compare |-> ""])

\* ------------------------------------------------------------ ggez
\* graphics::Canvas: created by from_frame with the frame's size as its
\* screen coordinates; it records draws and renders nothing until finish.
NoCanvas ==
    [live |-> FALSE, clear |-> "None", screen_coordinates |-> Rect(0, 0, 0, 0),
     coords_applied |-> FALSE, draws |-> <<>>]

Canvas_from_frame(clear) ==
    [live |-> TRUE, clear |-> clear,
     screen_coordinates |-> Rect(0, 0, drawable[1], drawable[2]),
     coords_applied |-> FALSE, draws |-> <<>>]

set_screen_coordinates(canvas, rect) ==
    [canvas EXCEPT !.screen_coordinates = rect, !.coords_applied = TRUE]

Canvas_draw(canvas, text, dest) ==
    [canvas EXCEPT !.draws = Append(@, Cmd("draw_text", text, dest))]

\* what Canvas::finish records: one pass on the frame, loading or clearing
Canvas_finish(canvas) ==
    << Cmd("begin_render_pass",
           IF canvas.clear = "None" THEN "Load" ELSE canvas.clear, <<>>) >>
    \o canvas.draws
    \o << Cmd("end_render_pass", "", <<>>) >>

\* the cached image whatever the drawable size
ScreenImage_image_cached(cached) == cached

\* graphics::ScreenImage::image: the cached image, created again when its
\* size is not the drawable size
ScreenImage_image(cached) == IF cached # drawable THEN drawable ELSE cached

\* ------------------------------------------------------------ construction
Init ==
    /\ pc = "new"
    /\ drawable \in Sizes
    /\ frames = 0
    /\ screen_coords = Rect(0, 0, 0, 0)
    /\ verts = <<>>
    /\ inds = <<>>
    /\ pipeline = NoPipeline
    /\ depth = <<0, 0>>
    /\ camera_uniform = <<>>
    /\ camera_buffer = <<>>
    /\ canvas1 = NoCanvas
    /\ canvas2 = NoCanvas
    /\ attach = <<0, 0>>
    /\ cmds = <<>>
    /\ result = "none"
    /\ queue = <<>>
    /\ prim = 0
    /\ prims = <<>>
    /\ target = Pixel("undefined", FALSE, 0)
    /\ depthbuf = 0
    /\ frags = <<>>

NewMesh ==
    /\ pc = "new"
    /\ verts' = vertex_data
    /\ inds' = index_data
    /\ pc' = "new_camera"
    /\ UNCHANGED <<drawable, frames, screen_coords, pipeline, depth,
                   camera_uniform, camera_buffer, canvas1, canvas2, attach,
                   cmds, result, queue, prim, prims, target, depthbuf, frags>>

\* the uniform uploaded as CameraUniform::new left it
NewCamera_NoUpdate ==
    /\ pc = "new_camera"
    /\ camera_uniform' = CameraUniform_new
    /\ pc' = "new_camera_buffer"
    /\ UNCHANGED <<drawable, frames, screen_coords, verts, inds, pipeline,
                   depth, camera_buffer, canvas1, canvas2, attach, cmds,
                   result, queue, prim, prims, target, depthbuf, frags>>

NewCamera ==
    /\ pc = "new_camera"
    /\ camera_uniform' = update_view_proj(CameraUniform_new)
    /\ pc' = "new_camera_buffer"
    /\ UNCHANGED <<drawable, frames, screen_coords, verts, inds, pipeline,
                   depth, camera_buffer, canvas1, canvas2, attach, cmds,
                   result, queue, prim, prims, target, depthbuf, frags>>

NewCameraBuffer ==
    /\ pc = "new_camera_buffer"
    /\ camera_buffer' = camera_uniform
    /\ pc' = "new_pipeline"
    /\ UNCHANGED <<drawable, frames, screen_coords, verts, inds, pipeline,
                   depth, camera_uniform, canvas1, canvas2, attach, cmds,
                   result, queue, prim, prims, target, depthbuf, frags>>

NewPipeline ==
    /\ pc = "new_pipeline"
    /\ pipeline' = RenderPipeline(PrimitiveState, DepthStencilState)
    /\ pc' = "new_state"
    /\ UNCHANGED <<drawable, frames, screen_coords, verts, inds, depth,
                   camera_uniform, camera_buffer, canvas1, canvas2, attach,
                   cmds, result, queue, prim, prims, target, depthbuf, frags>>

\* the depth ScreenImage (its contents are whatever the allocation holds) and
\* the MainState literal
NewState ==
    /\ pc = "new_state"
    /\ depth' = drawable
    /\ depthbuf' \in Depths
    /\ frames' = 0
    /\ screen_coords' = Rect(0, 0, drawable[1], drawable[2])
    /\ pc' = "Idle"
    /\ UNCHANGED <<drawable, verts, inds, pipeline, camera_uniform,
                   camera_buffer, canvas1, canvas2, attach, cmds, result,
                   queue, prim, prims, target, frags>>

\* ------------------------------------------------------------ events
\* width and height exchanged
new_rect_swapped(width, height) == Rect(0, 0, height, width)

new_rect(width, height) == Rect(0, 0, width, height)

\* the window is resized to (width, height) and the event loop delivers
\* resize_event(width, height)
resize_event(width, height) ==
    /\ pc = "Idle"
    /\ drawable' = <<width, height>>
    /\ screen_coords' = new_rect(width, height)
    /\ UNCHANGED <<pc, frames, verts, inds, pipeline, depth, camera_uniform,
                   camera_buffer, canvas1, canvas2, attach, cmds, result,
                   queue, prim, prims, target, depthbuf, frags>>

\* one tick of the event loop calls update, then draw
update ==
    /\ pc = "Idle"
    /\ pc' = "Updated"
    /\ UNCHANGED <<drawable, frames, screen_coords, verts, inds, pipeline,
                   depth, camera_uniform, camera_buffer, canvas1, canvas2,
                   attach, cmds, result, queue, prim, prims, target,
                   depthbuf, frags>>

\* ------------------------------------------------------------ draw
\* LoadOp::Clear(0.) of the depth attachment, as a depth level
depth_clear == 0

Pass3DBegin ==
    Cmd("begin_render_pass", "Clear(0.1,0.1,0.1,1.0)", <<depth_clear>>)

\* depth_ops.store is false: the pass leaves the depth contents undefined
Pass3DEnd == Cmd("end_render_pass", "discard_depth", <<>>)

\* the draw issued twice
Pass3DBody_Twice ==
    << Cmd("set_pipeline", "pipeline", <<>>),
       Cmd("set_bind_group", "bind_group", <<0>>),
       Cmd("set_bind_group", "camera_bind_group", <<1>>),
       Cmd("set_vertex_buffer", "verts", <<0>>),
       Cmd("set_index_buffer", "inds:Uint32", <<>>),
       Cmd("draw_indexed", "", <<0, 36, 0, 0, 1>>),
       Cmd("draw_indexed", "", <<0, 36, 0, 0, 1>>) >>

Pass3DBody ==
    << Cmd("set_pipeline", "pipeline", <<>>),
       Cmd("set_bind_group", "bind_group", <<0>>),
       Cmd("set_bind_group", "camera_bind_group", <<1>>),
       Cmd("set_vertex_buffer", "verts", <<0>>),
       Cmd("set_index_buffer", "inds:Uint32", <<>>),
       Cmd("draw_indexed", "", <<0, 36, 0, 0, 1>>) >>

text1 == "You can mix ggez and wgpu drawing;"
text2 == "it basically draws wgpu stuff first, then ggez"
dest_point1 == <<10, 210>>
dest_point2 == <<10, 250>>

\* lines 427-428, on the frame the event loop has just begun
DrawCanvas1 ==
    /\ pc = "Updated"
    /\ canvas1' = set_screen_coordinates(Canvas_from_frame("BLACK"),
                                         screen_coords)
    /\ cmds' = <<>>
    /\ result' = "none"
    /\ pc' = "Canvas1"
    /\ UNCHANGED <<drawable, frames, screen_coords, verts, inds, pipeline,
                   depth, camera_uniform, camera_buffer, canvas2, attach,
                   queue, prim, prims, target, depthbuf, frags>>

\* lines 430-432: the depth image (a new allocation when the size changed)
\* and the frame
DrawAcquire ==
    /\ pc = "Canvas1"
    /\ depth' = ScreenImage_image(depth)
    /\ attach' = depth'
    /\ IF depth' # depth THEN depthbuf' \in Depths ELSE depthbuf' = depthbuf
    /\ pc' = "Acquired"
    /\ UNCHANGED <<drawable, frames, screen_coords, verts, inds, pipeline,
                   camera_uniform, camera_buffer, canvas1, canvas2, cmds,
                   result, queue, prim, prims, target, frags>>

\* lines 433-455: commands().unwrap() panics on None
DrawBeginPass ==
    /\ pc = "Acquired"
    /\ \E commands_some \in BOOLEAN :
          IF commands_some
          THEN /\ cmds' = Append(cmds, Pass3DBegin)
               /\ pc' = "ThreeDPassActive"
               /\ result' = result
          ELSE /\ cmds' = cmds
               /\ pc' = "Panicked"
               /\ result' = "panic"
    /\ UNCHANGED <<drawable, frames, screen_coords, verts, inds, pipeline,
                   depth, camera_uniform, camera_buffer, canvas1, canvas2,
                   attach, queue, prim, prims, target, depthbuf, frags>>

\* lines 457-465
DrawBindAndDraw ==
    /\ pc = "ThreeDPassActive"
    /\ cmds' = cmds \o Pass3DBody
    /\ pc' = "Drawn"
    /\ UNCHANGED <<drawable, frames, screen_coords, verts, inds, pipeline,
                   depth, camera_uniform, camera_buffer, canvas1, canvas2,
                   attach, result, queue, prim, prims, target, depthbuf,
                   frags>>

\* line 466: the pass is dropped at the end of its block
DrawEndPass ==
    /\ pc = "Drawn"
    /\ cmds' = Append(cmds, Pass3DEnd)
    /\ pc' = "ThreeDPassEnded"
    /\ UNCHANGED <<drawable, frames, screen_coords, verts, inds, pipeline,
                   depth, camera_uniform, camera_buffer, canvas1, canvas2,
                   attach, result, queue, prim, prims, target, depthbuf,
                   frags>>

\* the overlay canvas begun with a clear colour
DrawCanvas2_Clearing ==
    /\ pc = "ThreeDPassEnded"
    /\ canvas2' = Canvas_from_frame("BLACK")
    /\ pc' = "TwoDPassActive"
    /\ UNCHANGED <<drawable, frames, screen_coords, verts, inds, pipeline,
                   depth, camera_uniform, camera_buffer, canvas1, attach,
                   cmds, result, queue, prim, prims, target, depthbuf, frags>>

\* line 468: a second binding named canvas; the first stays alive, shadowed
DrawCanvas2 ==
    /\ pc = "ThreeDPassEnded"
    /\ canvas2' = Canvas_from_frame("None")
    /\ pc' = "TwoDPassActive"
    /\ UNCHANGED <<drawable, frames, screen_coords, verts, inds, pipeline,
                   depth, camera_uniform, camera_buffer, canvas1, attach,
                   cmds, result, queue, prim, prims, target, depthbuf, frags>>

\* lines 471-476
DrawText1 ==
    /\ pc = "TwoDPassActive"
    /\ canvas2' = Canvas_draw(canvas2, text1, dest_point1)
    /\ pc' = "Text1"
    /\ UNCHANGED <<drawable, frames, screen_coords, verts, inds, pipeline,
                   depth, camera_uniform, camera_buffer, canvas1, attach,
                   cmds, result, queue, prim, prims, target, depthbuf, frags>>

\* lines 477-480
DrawText2 ==
    /\ pc = "Text1"
    /\ canvas2' = Canvas_draw(canvas2, text2, dest_point2)
    /\ pc' = "Text2"
    /\ UNCHANGED <<drawable, frames, screen_coords, verts, inds, pipeline,
                   depth, camera_uniform, camera_buffer, canvas1, attach,
                   cmds, result, queue, prim, prims, target, depthbuf, frags>>

\* line 482: canvas.finish(ctx)? records the canvas's pass, or returns the
\* error to the event loop, whose default on_error ends the loop
DrawFinish ==
    /\ pc = "Text2"
    /\ \E finish_ok \in BOOLEAN :
          IF finish_ok
          THEN /\ cmds' = cmds \o Canvas_finish(canvas2)
               /\ canvas2' = [canvas2 EXCEPT !.live = FALSE]
               /\ canvas1' = canvas1
               /\ result' = result
               /\ pc' = "Finished"
          ELSE /\ cmds' = cmds
               /\ canvas2' = [canvas2 EXCEPT !.live = FALSE]
               /\ canvas1' = [canvas1 EXCEPT !.live = FALSE]
               /\ result' = "Err"
               /\ pc' = "Exited"
    /\ UNCHANGED <<drawable, frames, screen_coords, verts, inds, pipeline,
                   depth, camera_uniform, camera_buffer, attach, queue, prim,
                   prims, target, depthbuf, frags>>

\* line 489: Ok(()); the first canvas is dropped, never finished
DrawReturn ==
    /\ pc = "Finished"
    /\ canvas1' = [canvas1 EXCEPT !.live = FALSE]
    /\ result' = "Ok"
    /\ pc' = "Returned"
    /\ UNCHANGED <<drawable, frames, screen_coords, verts, inds, pipeline,
                   depth, camera_uniform, camera_buffer, canvas2, attach,
                   cmds, queue, prim, prims, target, depthbuf, frags>>

\* the event loop ends the frame: the recorded commands are submitted
EndFrame ==
    /\ pc = "Returned"
    /\ queue' = cmds
    /\ pc' = "Submitted"
    /\ UNCHANGED <<drawable, frames, screen_coords, verts, inds, pipeline,
                   depth, camera_uniform, camera_buffer, canvas1, canvas2,
                   attach, cmds, result, prim, prims, target, depthbuf, frags>>

\* ------------------------------------------------------------ GPU
\* the vertex stage: clip position = camera.view_proj * position
vs_main(buffer, pos) ==
    MatVec(Mat4(buffer[1], buffer[2], buffer[3], buffer[4]),
           << pos[1] * One, pos[2] * One, pos[3] * One, pos[4] * One >>)

\* perspective divide: normalized device x and y (y up)
Ndc(clip) == << (clip[1] * One) \div clip[4], (clip[2] * One) \div clip[4] >>

\* twice the signed area of a triangle in normalized device coordinates:
\* positive when a, b, c run counter-clockwise
Area2(a, b, c) ==
    (b[1] - a[1]) * (c[2] - a[2]) - (b[2] - a[2]) * (c[1] - a[1])

IsFront(primitive, area) ==
    IF primitive.front_face = "Ccw" THEN area > 0 ELSE area < 0

IsCulled(primitive, front) ==
    \/ primitive.cull_mode = "Back" /\ ~front
    \/ primitive.cull_mode = "Front" /\ front

DepthTest(compare, d, stored) ==
    CASE compare = "Greater" -> d > stored
      [] compare = "GreaterEqual" -> d >= stored
      [] compare = "Less" -> d < stored
      [] compare = "LessEqual" -> d <= stored
      [] OTHER -> TRUE

\* primitive k (from 0) of a draw_indexed(first..last, base_vertex, ..)
Primitive(c, k) ==
    LET ix(j) == inds[c.n[1] + 3 * k + j] + c.n[3]
        pos(j) == verts[ix(j) + 1].pos
        ndc(j) == Ndc(vs_main(camera_buffer, pos(j)))
        front == IsFront(pipeline.primitive, Area2(ndc(1), ndc(2), ndc(3)))
    IN  [tri |-> <<ix(1), ix(2), ix(3)>>,
         normal |-> Cross3(Sub3(pos(2), pos(1)), Sub3(pos(3), pos(1))),
         front |-> front,
         culled |-> IsCulled(pipeline.primitive, front)]

GpuBeginPass ==
    /\ pc = "Submitted"
    /\ queue # <<>>
    /\ Head(queue).op = "begin_render_pass"
    /\ target' = IF Head(queue).s = "Load" THEN target
                 ELSE Pixel(Head(queue).s, FALSE, 0)
    /\ depthbuf' = IF Head(queue).n # <<>> THEN Head(queue).n[1] ELSE depthbuf
    /\ queue' = Tail(queue)
    /\ UNCHANGED <<pc, drawable, frames, screen_coords, verts, inds, pipeline,
                   depth, camera_uniform, camera_buffer, canvas1, canvas2,
                   attach, cmds, result, prim, prims, frags>>

GpuBind ==
    /\ pc = "Submitted"
    /\ queue # <<>>
    /\ Head(queue).op \in {"set_pipeline", "set_bind_group",
                           "set_vertex_buffer", "set_index_buffer"}
    /\ queue' = Tail(queue)
    /\ UNCHANGED <<pc, drawable, frames, screen_coords, verts, inds, pipeline,
                   depth, camera_uniform, camera_buffer, canvas1, canvas2,
                   attach, cmds, result, prim, prims, target, depthbuf, frags>>

\* one primitive of the draw: assembled, culled or rasterized; a primitive
\* that is not culled may cover the observed pixel with a fragment of depth d
GpuAssemble ==
    /\ pc = "Submitted"
    /\ queue # <<>>
    /\ Head(queue).op = "draw_indexed"
    /\ 3 * prim < Head(queue).n[2] - Head(queue).n[1]
    /\ LET p == Primitive(Head(queue), prim)
       IN  /\ prims' = Append(prims, p)
           /\ prim' = prim + 1
           /\ \E d \in {-1} \cup Depths :
                 IF d = -1
                 THEN UNCHANGED <<target, depthbuf, frags>>
                 ELSE /\ ~p.culled
                      /\ Len(frags) < MaxFrags
                      /\ LET won == DepthTest(pipeline.depth_stencil.depth_compare,
                                              d, depthbuf)
                         IN  /\ frags' = Append(frags,
                                   [d |-> d, stored |-> depthbuf, won |-> won])
                             /\ target' = IF won THEN [target EXCEPT !.cube = TRUE]
                                          ELSE target
                             /\ depthbuf' =
                                   IF won /\ pipeline.depth_stencil.depth_write_enabled
                                   THEN d ELSE depthbuf
    /\ UNCHANGED <<pc, drawable, frames, screen_coords, verts, inds, pipeline,
                   depth, camera_uniform, camera_buffer, canvas1, canvas2,
                   attach, cmds, result, queue>>

GpuDrawDone ==
    /\ pc = "Submitted"
    /\ queue # <<>>
    /\ Head(queue).op = "draw_indexed"
    /\ 3 * prim >= Head(queue).n[2] - Head(queue).n[1]
    /\ prim' = 0
    /\ queue' = Tail(queue)
    /\ UNCHANGED <<pc, drawable, frames, screen_coords, verts, inds, pipeline,
                   depth, camera_uniform, camera_buffer, canvas1, canvas2,
                   attach, cmds, result, prims, target, depthbuf, frags>>

GpuText ==
    /\ pc = "Submitted"
    /\ queue # <<>>
    /\ Head(queue).op = "draw_text"
    /\ target' = [target EXCEPT !.text = @ + 1]
    /\ queue' = Tail(queue)
    /\ UNCHANGED <<pc, drawable, frames, screen_coords, verts, inds, pipeline,
                   depth, camera_uniform, camera_buffer, canvas1, canvas2,
                   attach, cmds, result, prim, prims, depthbuf, frags>>

GpuEndPass ==
    /\ pc = "Submitted"
    /\ queue # <<>>
    /\ Head(queue).op = "end_render_pass"
    /\ IF Head(queue).s = "discard_depth"
       THEN depthbuf' \in Depths
       ELSE depthbuf' = depthbuf
    /\ queue' = Tail(queue)
    /\ UNCHANGED <<pc, drawable, frames, screen_coords, verts, inds, pipeline,
                   depth, camera_uniform, camera_buffer, canvas1, canvas2,
                   attach, cmds, result, prim, prims, target, frags>>

\* the frame is presented and the event loop waits for the next tick
Present ==
    /\ pc = "Submitted"
    /\ queue = <<>>
    /\ prims' = <<>>
    /\ frags' = <<>>
    /\ pc' = "Idle"
    /\ UNCHANGED <<drawable, frames, screen_coords, verts, inds, pipeline,
                   depth, camera_uniform, camera_buffer, canvas1, canvas2,
                   attach, cmds, result, queue, prim, target, depthbuf>>

\* ------------------------------------------------------------ specification
Resize == \E width \in Dims, height \in Dims : resize_event(width, height)

Next ==
    \/ NewMesh
    \/ NewCamera
    \/ NewCameraBuffer
    \/ NewPipeline
    \/ NewState
    \/ Resize
    \/ update
    \/ DrawCanvas1
    \/ DrawAcquire
    \/ DrawBeginPass
    \/ DrawBindAndDraw
    \/ DrawEndPass
    \/ DrawCanvas2
    \/ DrawText1
    \/ DrawText2
    \/ DrawFinish
    \/ DrawReturn
    \/ EndFrame
    \/ GpuBeginPass
    \/ GpuBind
    \/ GpuAssemble
    \/ GpuDrawDone
    \/ GpuText
    \/ GpuEndPass
    \/ Present

Spec == Init /\ [][Next]_vars

\* ------------------------------------------------------------ properties
Ops(c) == [i \in 1..Len(c) |-> c[i].op]

IsPrefix(a, b) == Len(a) <= Len(b) /\ \A i \in 1..Len(a) : a[i] = b[i]

MaxOf(S) == CHOOSE m \in S : \A x \in S : x <= m

Constructing ==
    pc \in {"new", "new_camera", "new_camera_buffer", "new_pipeline", "new_state"}

Recording ==
    pc \in {"Canvas1", "Acquired", "ThreeDPassActive", "Drawn",
            "ThreeDPassEnded", "TwoDPassActive", "Text1", "Text2", "Finished"}

FrameOps ==
    << "begin_render_pass", "set_pipeline", "set_bind_group", "set_bind_group",
       "set_vertex_buffer", "set_index_buffer", "draw_indexed",
       "end_render_pass", "begin_render_pass", "draw_text", "draw_text",
       "end_render_pass" >>

Select(c, name) == SelectSeq(c, LAMBDA x : x.op = name)

\* C1: every frame records its commands in one order: the 3D pass is opened
\* (with a depth attachment), one draw_indexed(0..36, 0, 0..1) and no other
\* draw is issued in it, the pass is closed, the two text draws go to the 2D
\* canvas at (10,210) and then (10,250), and the canvas is finished once; a
\* frame cut short has recorded a prefix of this order, a draw that returned
\* Ok all of it.  While a frame is recorded no other frame is in flight, and
\* draw returns holding no canvas.
C1_FrameOrder ==
    /\ IsPrefix(Ops(cmds), FrameOps)
    /\ cmds # <<>> => cmds[1].n # <<>>
    /\ \A i \in 1..Len(cmds) :
          cmds[i].op = "draw_indexed" => cmds[i].n = <<0, 36, 0, 0, 1>>
    /\ LET texts == IF canvas2.live /\ Recording THEN canvas2.draws
                    ELSE Select(cmds, "draw_text")
       IN  /\ IsPrefix([i \in 1..Len(texts) |-> texts[i].n],
                       << <<10, 210>>, <<10, 250>> >>)
           /\ pc \in {"Text2", "Finished"} => Len(texts) = 2
    /\ result = "Ok" => Len(cmds) = Len(FrameOps)
    /\ pc = "Finished" => Len(cmds) = Len(FrameOps) /\ ~canvas2.live
    /\ pc = "Returned" => result = "Ok" /\ ~canvas1.live /\ ~canvas2.live
    /\ Recording \/ pc = "Returned" => queue = <<>>

C1_Witness ==
    /\ pc = "Returned"
    /\ Len(cmds) = 12
    /\ target.text = 2

\* C2: the only clear of the frame colour target in a frame is the load-clear
\* of the 3D pass, its first command, to the background colour; the canvas
\* that is finished was begun with clear = None and its pass loads the
\* target; the canvas created with Color::BLACK is never rendered.  On the
\* GPU the text is therefore drawn over the background and over whatever
\* the cube draw wrote.
C2_OverlayKeepsCube ==
    /\ \A i \in 1..Len(cmds) :
          cmds[i].op = "begin_render_pass" /\ cmds[i].s # "Load"
             => i = 1 /\ cmds[i].s = "Clear(0.1,0.1,0.1,1.0)"
    /\ pc \in {"TwoDPassActive", "Text1", "Text2", "Finished"}
          => canvas2.clear = "None"
    /\ Len(cmds) >= 9 => cmds[9] = Cmd("begin_render_pass", "Load", <<>>)
    /\ pc = "Submitted" /\ Len(queue) < Len(cmds) /\ target.text > 0
          => /\ target.base = "Clear(0.1,0.1,0.1,1.0)"
             /\ target.cube = (\E i \in 1..Len(frags) : frags[i].won)

C2_Witness ==
    /\ pc = "Submitted"
    /\ queue = <<>>
    /\ target.text = 2
    /\ target.cube
    /\ \E i \in 1..Len(frags) : frags[i].won

\* C3: reversed Z.  Every 3D pass clears depth to 0.0 and the pipeline
\* compares with Greater and writes depth, so in a frame a fragment wins iff
\* its depth is strictly greater than the stored one, and the stored depth
\* is the greatest depth seen so far in this frame (0.0 before any): it
\* does not depend on what the frame before left.  A fragment at 0.5 drawn
\* after one at 0.3 wins.
C3_ReversedZ ==
    /\ \A i \in 1..Len(cmds) :
          cmds[i].op = "begin_render_pass" /\ cmds[i].n # <<>>
             => cmds[i].n = <<0>>
    /\ ~Constructing =>
          /\ pipeline.depth_stencil.depth_compare = "Greater"
          /\ pipeline.depth_stencil.depth_write_enabled
    /\ \A i \in 1..Len(frags) :
          /\ frags[i].won = (frags[i].d > frags[i].stored)
          /\ frags[i].stored = MaxOf({0} \cup {frags[j].d : j \in 1..(i - 1)})
    /\ pc = "Submitted" /\ queue # <<>> /\ Head(queue).op = "draw_indexed"
          => depthbuf = MaxOf({0} \cup {frags[j].d : j \in 1..Len(frags)})
    /\ Len(frags) >= 2 /\ frags[1].d = 3 /\ frags[2].d = 5 => frags[2].won

C3_Witness ==
    /\ pc = "Submitted"
    /\ Len(frags) = 2
    /\ frags[1].d = 3
    /\ frags[2].d = 5
    /\ frags[2].won
    /\ depthbuf = 5

\* C4: once MainState is built, screen_coords is (0, 0, w, h) for the
\* (w, h) of the most recent resize event, or the drawable size read at
\* construction; only resize_event writes it; and a resize_event repeating
\* the size of the one before leaves all of MainState as it was.
C4_ScreenCoords ==
    /\ [](~Constructing => screen_coords = Rect(0, 0, drawable[1], drawable[2]))
    /\ [][~Constructing /\ screen_coords' # screen_coords
             => pc = "Idle" /\ pc' = "Idle" /\ drawable' # drawable]_vars
    /\ [][pc = "Idle" /\ pc' = "Idle" /\ drawable' = drawable
             => UNCHANGED <<frames, screen_coords, verts, inds, pipeline,
                            depth, camera_uniform, camera_buffer>>]_vars

C4_Witness ==
    /\ pc = "Idle"
    /\ result = "Ok"
    /\ depth # drawable
    /\ screen_coords = Rect(0, 0, drawable[1], drawable[2])

\* C5 (as claimed): a frame that cannot be recorded or finished ends with
\* draw returning Err: draw never panics, and it returns Ok only with the
\* whole frame recorded.
C5_FailureIsReturned ==
    /\ pc # "Panicked"
    /\ result # "panic"
    /\ result = "Ok" => Len(cmds) = Len(FrameOps)

\* the buffers have just been uploaded, or a draw_indexed is about to read them
MeshRead ==
    \/ pc = "new_camera"
    \/ pc = "Submitted" /\ queue # <<>> /\ Head(queue).op = "draw_indexed"
          /\ prim = 0

\* the GPU has assembled every primitive of a draw_indexed
DrawAssembled ==
    pc = "Submitted" /\ queue # <<>> /\ Head(queue).op = "draw_indexed"
       /\ 3 * prim >= Head(queue).n[2] - Head(queue).n[1]

\* the four vertices of face f (from 0) and their positions
FaceVertices(f) == {4 * f + j : j \in 1..4}

Pos3(v) == <<v.pos[1], v.pos[2], v.pos[3]>>

FacePositions(f) == {Pos3(verts[i]) : i \in FaceVertices(f)}

\* C6 (as claimed): no vertex of one face has the position of a vertex of
\* another face.
C6_NoSharedPosition ==
    MeshRead =>
       \A f \in 0..5, g \in 0..5 :
          f # g => FacePositions(f) \cap FacePositions(g) = {}

\* C6 (amended): no face shares a vertex of the buffer with another face:
\* there are 24 vertices and 36 indices, the six indices of face f are all in
\* 4f..4f+3, and the four vertices of a face have four different positions.
\* Positions are shared: each position of the mesh occurs in exactly three
\* faces, once in each.  (Checked of the buffers as uploaded and as each
\* draw reads them.)
C6_NoSharedVertex ==
    MeshRead =>
       /\ Len(verts) = 24
       /\ Len(inds) = 36
       /\ \A k \in 1..Len(inds) : inds[k] \div 4 = (k - 1) \div 6
       /\ \A f \in 0..5 : Cardinality(FacePositions(f)) = 4
       /\ \A i \in 1..Len(verts) :
             Cardinality({f \in 0..5 : Pos3(verts[i]) \in FacePositions(f)}) = 3

C6_Witness ==
    /\ MeshRead
    /\ pc = "Submitted"
    /\ Pos3(verts[3]) = Pos3(verts[11])
    /\ Pos3(verts[3]) = Pos3(verts[20])

\* C7 (as claimed): when resize_event has returned, the frame-target
\* provider has been told the new size: its depth target has the size of
\* the drawable.
C7_ResizeNotifies == pc = "Idle" => depth = drawable

\* C7 (amended): resize_event tells the provider nothing and leaves the depth
\* target as it is; the depth target is brought to the drawable size when
\* the next draw acquires it, so the depth attachment of every 3D pass has
\* the size of the drawable and of screen_coords.
C7_DepthMatchesAtPass ==
    /\ [](pc \in {"Acquired", "ThreeDPassActive", "Drawn", "ThreeDPassEnded"}
            => /\ attach = drawable
               /\ attach = <<screen_coords.w, screen_coords.h>>
               /\ depth = attach)
    /\ [][pc = "Idle" /\ pc' = "Idle" => depth' = depth]_vars

C7_Witness ==
    /\ pc = "ThreeDPassActive"
    /\ attach = drawable
    /\ canvas2.draws # <<>>
    /\ canvas2.screen_coordinates # canvas1.screen_coordinates

\* C8 (as claimed): the canvas that receives the text and is finished has
\* had screen_coords applied to it before the text is drawn.
C8_CanvasReadsScreenCoords ==
    pc \in {"Text1", "Text2", "Finished"}
       => /\ canvas2.coords_applied
          /\ canvas2.screen_coordinates = screen_coords

\* the camera uniform as the matrix builder gives it, column by column
PackedViewProj ==
    << build_view_projection_matrix.x_axis, build_view_projection_matrix.y_axis,
       build_view_projection_matrix.z_axis, build_view_projection_matrix.w_axis >>

\* C9: the camera buffer is written once, at construction, from a
\* CameraUniform already updated from the view-projection; no update, resize
\* or draw writes the buffer or the uniform.  So whenever a frame is recorded
\* or executed the buffer holds the packed view-projection, never the
\* identity of CameraUniform::new.
C9_CameraWrittenBeforeFrames ==
    /\ [](pc \notin {"new", "new_camera", "new_camera_buffer"}
            => /\ camera_buffer = PackedViewProj
               /\ camera_buffer = camera_uniform
               /\ camera_buffer # CameraUniform_new)
    /\ [][pc \notin {"new_camera", "new_camera_buffer"}
             => UNCHANGED <<camera_buffer, camera_uniform>>]_vars

C9_Witness ==
    /\ pc = "Submitted"
    /\ queue # <<>>
    /\ Head(queue).op = "draw_indexed"
    /\ prim = 12
    /\ target.text = 0
    /\ camera_buffer = PackedViewProj
    /\ camera_buffer # CameraUniform_new

\* triangle k (from 0) as the index data give it
Triangle(k) == <<inds[3 * k + 1], inds[3 * k + 2], inds[3 * k + 3]>>

TriangleNormal(k) ==
    LET a == Pos3(verts[Triangle(k)[1] + 1])
        b == Pos3(verts[Triangle(k)[2] + 1])
        c == Pos3(verts[Triangle(k)[3] + 1])
    IN  Cross3(Sub3(b, a), Sub3(c, a))

\* the eye is on the outer side of triangle k's plane (positions scaled by One)
FacesEye(k) ==
    LET a == Pos3(verts[Triangle(k)[1] + 1])
    IN  Dot3(face_normal[k \div 2 + 1],
             Sub3(default_eye, <<a[1] * One, a[2] * One, a[3] * One>>)) > 0

\* C10: the 12 triangles of the index data are 4f + (0,1,2) and 4f + (2,3,0)
\* for face f, and (b - a) x (c - a) of each points along the outward normal
\* of its face (+Z, -Z, +X, -X, +Y, -Y): counter-clockwise seen from outside.
\* With front face Ccw and back-face culling the GPU culls no triangle whose
\* outer side faces the eye, and culls those facing away.  (The index data
\* are checked as uploaded and as each draw reads them, the culling when a
\* draw has assembled its primitives.)
C10_WindingCcw ==
    /\ MeshRead =>
          \A k \in 0..11 :
             LET f == k \div 2
             IN  /\ Triangle(k) = IF k % 2 = 0
                                  THEN <<4 * f, 4 * f + 1, 4 * f + 2>>
                                  ELSE <<4 * f + 2, 4 * f + 3, 4 * f>>
                 /\ Dot3(TriangleNormal(k), face_normal[f + 1]) > 0
                 /\ Cross3(TriangleNormal(k), face_normal[f + 1]) = <<0, 0, 0>>
    /\ ~Constructing =>
          /\ pipeline.primitive.front_face = "Ccw"
          /\ pipeline.primitive.cull_mode = "Back"
    /\ DrawAssembled =>
          /\ Len(prims) = 12
          /\ \A k \in 0..11 :
                /\ prims[k + 1].tri = Triangle(k)
                /\ prims[k + 1].culled = ~FacesEye(k)

C10_Witness ==
    /\ DrawAssembled
    /\ Len(prims) = 12
    /\ ~prims[1].culled
    /\ prims[3].culled
    /\ Cardinality({k \in 1..12 : ~prims[k].culled}) = 6

====
